---------------------------- MODULE Spec2Model ----------------------------
(***************************************************************************)
(* A model of the eduroam log parsers of this repository:                  *)
(*   - log_generator.py: extract_summary_tables_from_stream                *)
(*   - ritik.py: EduroamLogAnalyzer.parse_eduroam_log and enrich_log_data  *)
(*   - ritik.py: analyze_movements and the runs of main                    *)
(*   - app.py: the filter of the Access table                              *)
(*                                                                         *)
(* Text is modelled as a sequence of symbols.  A field on which the code   *)
(* works character by character (user names, realms, institution names,    *)
(* IP addresses) is spelled one character per symbol; an opaque field      *)
(* (event keyword, station id, F-TICKS values) is a single symbol.  A log  *)
(* line is a record of the segments it is laid out from, in the order      *)
(* radsecproxy writes them:                                                *)
(*   <pre><timestamp>: <kw> for user <user> stationid <sid> cui <cui>      *)
(*      from <from> to <to> (<ip>) cui <cui> operator <op> <F-TICKS chunk> *)
(*   <pre><timestamp>: F-TICKS/eduroam/<ver>#REALM=..#VISCOUNTRY=..#       *)
(*      VISINST=..#CSI=..#RESULT=..#                                       *)
(***************************************************************************)
EXTENDS Integers, Sequences, FiniteSets, TLC

VARIABLES
    prog,         \* which entry point runs: "log_generator" or "ritik"
    pc,           \* position of the running entry point
    input,        \* the uploaded file: a sequence of raw lines
    idx,          \* index of the next line of the parsing loop
    access_logs,  \* log_generator.py: list of Access dicts
    fticks_logs,  \* log_generator.py: list of F-TICKS dicts
    df_access,    \* log_generator.py: the Access DataFrame
    df_fticks,    \* log_generator.py: the F-TICKS DataFrame
    records,      \* ritik.py: list of groupdicts of parse_eduroam_log
    df,           \* ritik.py: the DataFrame of parse_eduroam_log
    st_error,     \* ritik.py: the message shown with st.error, or <<>>
    error,        \* the exception that left the entry point, or NoError
    session_state, \* ritik.py: st.session_state, kept from run to run
    df_filtered,  \* ritik.py: the table main displays, None before that
    uploaded,     \* ritik.py: whether the uploader holds a file in this run
    access_df_filtered \* app.py: the Access table it displays, None before

vars == <<prog, pc, input, idx, access_logs, fticks_logs, df_access, df_fticks,
          records, df, st_error, error, session_state, df_filtered,
          uploaded, access_df_filtered>>

\* The state of main that the parsing functions leave alone.
mainVars == <<session_state, df_filtered, uploaded>>

\* The state of app.py that extract_summary_tables_from_stream and ritik.py
\* leave alone.
appVars == <<access_df_filtered>>

(***************************************************************************)
(* Bounds of the model.                                                    *)
(***************************************************************************)
MaxLines == 2

(***************************************************************************)
(* Text helpers.                                                           *)
(***************************************************************************)
\* Python None / pandas NaN: a missing value.  It is a one-symbol sequence
\* whose symbol is no character, so that it compares with any text.
None == <<"<None>">>

\* pandas NaT: a missing datetime (datetimes are <<year, month, day, seconds>>).
NaT == <<>>

NoError == "NoError"

\* Python `f in s` for strings.
Contains(s, f) ==
    \E i \in 0..(Len(s) - Len(f)) : SubSeq(s, i + 1, i + Len(f)) = f

UpperToLower ==
    [c \in {"A","B","C","D","E","F","G","H","I","J","K","L","M","N","O","P","Q",
            "R","S","T","U","V","W","X","Y","Z"} |->
       CASE c = "A" -> "a" [] c = "B" -> "b" [] c = "C" -> "c" [] c = "D" -> "d"
         [] c = "E" -> "e" [] c = "F" -> "f" [] c = "G" -> "g" [] c = "H" -> "h"
         [] c = "I" -> "i" [] c = "J" -> "j" [] c = "K" -> "k" [] c = "L" -> "l"
         [] c = "M" -> "m" [] c = "N" -> "n" [] c = "O" -> "o" [] c = "P" -> "p"
         [] c = "Q" -> "q" [] c = "R" -> "r" [] c = "S" -> "s" [] c = "T" -> "t"
         [] c = "U" -> "u" [] c = "V" -> "v" [] c = "W" -> "w" [] c = "X" -> "x"
         [] c = "Y" -> "y" [] c = "Z" -> "z"]

\* str.lower()
Lower(s) ==
    [i \in 1..Len(s) |->
        IF s[i] \in DOMAIN UpperToLower THEN UpperToLower[s[i]] ELSE s[i]]

\* The regex class \w over the characters the model uses.
WordChars ==
    {"a","b","c","d","e","f","g","h","i","j","k","l","m","n","o","p","q","r",
     "s","t","u","v","w","x","y","z","0","1","2","3","4","5","6","7","8","9","_"}
    \cup DOMAIN UpperToLower

AllIn(s, class) == \A i \in 1..Len(s) : s[i] \in class

(***************************************************************************)
(* Timestamps.  A raw timestamp is the text the patterns capture, kept as  *)
(* its five tokens.                                                        *)
(***************************************************************************)
Ts(wd, mon, day, time) ==
    [wd |-> wd, mon |-> mon, day |-> day, time |-> time, year |-> 2024]

TsGood    == Ts("Thu", "Jul", <<"2","5">>, <<9, 3, 0>>)
TsLater   == Ts("Fri", "Jul", <<"2","6">>, <<23, 59, 59>>)
TsOneDig  == Ts("Fri", "Jul", <<"5">>, <<9, 3, 0>>)
TsBadName == Ts("Xxx", "Jul", <<"2","5">>, <<9, 3, 0>>)
TsDay00   == Ts("Thu", "Jul", <<"0","0">>, <<9, 3, 0>>)

DigitValue ==
    [c \in {"0","1","2","3","4","5","6","7","8","9"} |->
       CASE c = "0" -> 0 [] c = "1" -> 1 [] c = "2" -> 2 [] c = "3" -> 3
         [] c = "4" -> 4 [] c = "5" -> 5 [] c = "6" -> 6 [] c = "7" -> 7
         [] c = "8" -> 8 [] c = "9" -> 9]

RECURSIVE IntOf(_)
IntOf(ds) ==
    IF ds = <<>> THEN 0
    ELSE 10 * IntOf(SubSeq(ds, 1, Len(ds) - 1)) + DigitValue[ds[Len(ds)]]

Weekdays == {"Mon", "Tue", "Wed", "Thu", "Fri", "Sat", "Sun"}

MonthNumber ==
    [m \in {"Jan","Feb","Mar","Apr","May","Jun","Jul","Aug","Sep","Oct","Nov","Dec"} |->
       CASE m = "Jan" -> 1 [] m = "Feb" -> 2 [] m = "Mar" -> 3 [] m = "Apr" -> 4
         [] m = "May" -> 5 [] m = "Jun" -> 6 [] m = "Jul" -> 7 [] m = "Aug" -> 8
         [] m = "Sep" -> 9 [] m = "Oct" -> 10 [] m = "Nov" -> 11 [] m = "Dec" -> 12]

DaysInMonth(m) ==
    IF m \in {"Apr", "Jun", "Sep", "Nov"} THEN 30
    ELSE IF m = "Feb" THEN 29 ELSE 31

\* Whether strptime('%a %b %d %H:%M:%S %Y') (and dateutil) accepts the text.
Convertible(ts) ==
    /\ ts.wd \in Weekdays
    /\ ts.mon \in DOMAIN MonthNumber
    /\ IntOf(ts.day) >= 1
    /\ IntOf(ts.day) <= DaysInMonth(ts.mon)
    /\ ts.time[1] <= 23 /\ ts.time[2] <= 59 /\ ts.time[3] <= 59

\* The datetime a convertible text stands for.
DatetimeOf(ts) ==
    <<ts.year, MonthNumber[ts.mon], IntOf(ts.day),
      3600 * ts.time[1] + 60 * ts.time[2] + ts.time[3]>>

(***************************************************************************)
(* The texts the input lines are made of, spelled character by character.  *)
(***************************************************************************)
\* a@iitd.ac.in
U_iitd == <<"a","@","i","i","t","d",".","a","c",".","i","n">>

\* b@x.it
U_it == <<"b","@","x",".","i","t">>

\* bob
U_bob == <<"b","o","b">>

\* c@d@x.de
U_two == <<"c","@","d","@","x",".","d","e">>

\* e@u-x.nl
U_hyphen == <<"e","@","u","-","x",".","n","l">>

\* F@IITD.AC.IN
U_upper == <<"F","@","I","I","T","D",".","A","C",".","I","N">>

\* g@x.info
U_info == <<"g","@","x",".","i","n","f","o">>

\* sp1.ex
I_sp1 == <<"s","p","1",".","e","x">>

\* sp2.ex
I_sp2 == <<"s","p","2",".","e","x">>

\* iitd
I_iitd == <<"i","i","t","d">>

\* IISC
I_IISC == <<"I","I","S","C">>

\* etlr1.eduroam.org
I_etlr == <<"e","t","l","r","1",".","e","d","u","r","o","a","m",".","o","r","g">>

\* uni
I_uni == <<"u","n","i">>

\* tue.nl
I_tue == <<"t","u","e",".","n","l">>

\* 10.0.0.5
IP_private == <<"1","0",".","0",".","0",".","5">>

\* 14.139.1.1
IP_ernet == <<"1","4",".","1","3","9",".","1",".","1">>

\* 103.5.5.5
IP_103 == <<"1","0","3",".","5",".","5",".","5">>

\* 10.103.0.1
IP_inner == <<"1","0",".","1","0","3",".","0",".","1">>

\* iitd.ac.in
R_iitd == <<"i","i","t","d",".","a","c",".","i","n">>

\* x.it
R_it == <<"x",".","i","t">>

(***************************************************************************)
(* Fixed tables of the analyzer (EduroamLogAnalyzer.__init__).              *)
(***************************************************************************)
indian_institutions ==
    {<<"i","i","t","d",".","a","c",".","i","n">>,
     <<"i","i","t","m",".","a","c",".","i","n">>,
     <<"i","i","t","b",".","a","c",".","i","n">>,
     <<"i","i","t","g",".","a","c",".","i","n">>,
     <<"i","i","t","k",".","a","c",".","i","n">>,
     <<"i","i","t","r",".","a","c",".","i","n">>,
     <<"i","i","s","e","r","k","o","l",".","a","c",".","i","n">>,
     <<"i","i","s","c",".","a","c",".","i","n">>,
     <<"i","c","g","e","b",".","a","c",".","i","n">>,
     <<"n","i","t",".","a","c",".","i","n">>,
     <<"e","r","n","e","t",".","i","n">>,
     <<"i","i","s","e","r","p","u","n","e",".","a","c",".","i","n">>,
     <<"i","i","s","e","r","t","v","m",".","a","c",".","i","n">>,
     <<"i","i","s","e","r","b",".","a","c",".","i","n">>,
     <<"b","i","t","s","-","p","i","l","a","n","i",".","a","c",".","i","n">>,
     <<"j","n","u",".","a","c",".","i","n">>,
     <<"d","u",".","a","c",".","i","n">>,
     <<"t","i","f","r",".","r","e","s",".","i","n">>,
     <<"c","d","a","c",".","i","n">>,
     <<"c","s","i","r",".","r","e","s",".","i","n">>}

\* Coordinates are held in units of 0.0001 degree.
institution_coordinates ==
    (<<"i","i","t","d">> :> <<286139, 772090>>)
    @@ (<<"i","i","t","m">> :> <<129716, 802594>>)
    @@ (<<"i","i","t","b">> :> <<191334, 729133>>)
    @@ (<<"i","i","t","g">> :> <<261890, 916917>>)
    @@ (<<"i","i","t","k">> :> <<265123, 802329>>)
    @@ (<<"i","i","t","r">> :> <<298650, 778950>>)
    @@ (<<"i","i","s","e","r","k","o","l">> :> <<225726, 883639>>)
    @@ (<<"i","i","s","c">> :> <<130827, 775718>>)
    @@ (<<"e","t","l","r","1",".","e","d","u","r","o","a","m",".","o","r","g">>
            :> <<525200, 134050>>)
    @@ (<<"e","t","l","r","2",".","e","d","u","r","o","a","m",".","o","r","g">>
            :> <<556761, 125683>>)

country_coordinates ==
    (<<"India">> :> <<205937, 789629>>)
    @@ (<<"Italy">> :> <<418719, 125674>>)
    @@ (<<"UK">> :> <<553781, -34360>>)
    @@ (<<"USA">> :> <<398283, -985795>>)
    @@ (<<"Germany">> :> <<511657, 104515>>)
    @@ (<<"France">> :> <<462276, 22137>>)
    @@ (<<"Netherlands">> :> <<521326, 52913>>)
    @@ (<<"Sweden">> :> <<601282, 186435>>)

\* ['iit', 'iisc', 'iiser', 'nit']
indian_fragments ==
    {<<"i","i","t">>, <<"i","i","s","c">>, <<"i","i","s","e","r">>, <<"n","i","t">>}

\* 'unknown', the sentinel of fillna
S_unknown == <<"u","n","k","n","o","w","n">>

\* str(float('nan'))
S_nan == <<"n","a","n">>

(***************************************************************************)
(* Input lines.                                                            *)
(***************************************************************************)
\* Thu Jul 25 09:03:00 2024: Access-Accept for user a@iitd.ac.in
\*    stationid AA:BB:CC:DD:EE:FF from sp1.ex to iitd (10.0.0.5)
BaseAccess ==
    [kind |-> "access", pre |-> "none", badbyte |-> FALSE, ts |-> TsGood,
     kw |-> "Access-Accept", foruser |-> TRUE, user |-> U_iitd,
     stationid |-> <<"AA:BB:CC:DD:EE:FF">>, cuiB |-> None,
     source |-> I_sp1, dest |-> I_iitd, ip |-> IP_private, closep |-> TRUE,
     cuiA |-> None, operator |-> None, tail |-> FALSE,
     marker |-> "F-TICKS", ver |-> "1.0", hasRealm |-> TRUE, realm |-> R_iitd,
     viscountry |-> <<"IN">>, visinst |-> <<"nit.ac.in">>,
     csi |-> <<"abc123">>, result |-> <<"OK">>, endhash |-> TRUE]

\* Thu Jul 25 09:03:00 2024: F-TICKS/eduroam/1.0#REALM=iitd.ac.in#
\*    VISCOUNTRY=IN#VISINST=nit.ac.in#CSI=abc123#RESULT=OK#
BaseFticks == [BaseAccess EXCEPT !.kind = "fticks"]

\* Lines of the Access layout: the base line with one or two segments changed.
AccessLines ==
    {BaseAccess,
     [BaseAccess EXCEPT !.ts = TsLater, !.kw = "Access-Reject", !.user = U_it],
     [BaseAccess EXCEPT !.ts = TsOneDig],
     [BaseAccess EXCEPT !.ts = TsBadName],
     [BaseAccess EXCEPT !.pre = "junk"],
     [BaseAccess EXCEPT !.badbyte = TRUE],
     [BaseAccess EXCEPT !.kw = "access-accept"],
     [BaseAccess EXCEPT !.kw = "Access-Challenge"],
     [BaseAccess EXCEPT !.foruser = FALSE, !.user = None],
     [BaseAccess EXCEPT !.user = None],
     [BaseAccess EXCEPT !.user = U_bob, !.dest = I_sp2],
     [BaseAccess EXCEPT !.user = U_two],
     [BaseAccess EXCEPT !.user = U_hyphen],
     [BaseAccess EXCEPT !.user = U_upper, !.dest = I_sp2],
     [BaseAccess EXCEPT !.stationid = None],
     [BaseAccess EXCEPT !.cuiB = <<"ab12">>, !.operator = <<"op1">>],
     [BaseAccess EXCEPT !.cuiA = <<"ab12">>],
     [BaseAccess EXCEPT !.source = None, !.dest = None],
     [BaseAccess EXCEPT !.dest = None],
     [BaseAccess EXCEPT !.user = U_it, !.dest = I_sp2],
     [BaseAccess EXCEPT !.user = U_it, !.source = I_etlr, !.dest = I_sp2],
     [BaseAccess EXCEPT !.user = U_it, !.source = I_uni, !.dest = I_tue],
     [BaseAccess EXCEPT !.user = U_it, !.dest = I_IISC],
     [BaseAccess EXCEPT !.ip = None],
     [BaseAccess EXCEPT !.closep = FALSE],
     [BaseAccess EXCEPT !.dest = I_sp2, !.ip = IP_ernet],
     [BaseAccess EXCEPT !.user = U_bob, !.dest = I_sp2, !.ip = IP_103],
     [BaseAccess EXCEPT !.user = U_info, !.dest = I_sp2],
     [BaseAccess EXCEPT !.user = U_it, !.dest = I_sp2, !.ip = IP_inner],
     [BaseAccess EXCEPT !.tail = TRUE],
     [BaseAccess EXCEPT !.ts = TsLater, !.user = U_it, !.tail = TRUE]}

\* Lines of the F-TICKS layout.
FticksLines ==
    {BaseFticks,
     [BaseFticks EXCEPT !.ts = TsDay00],
     [BaseFticks EXCEPT !.ver = "1.1"],
     [BaseFticks EXCEPT !.hasRealm = FALSE],
     [BaseFticks EXCEPT !.ts = TsLater, !.realm = R_it, !.result = <<"FAIL">>],
     [BaseFticks EXCEPT !.result = <<"ok">>],
     [BaseFticks EXCEPT !.realm = <<>>, !.result = <<>>],
     [BaseFticks EXCEPT !.endhash = FALSE],
     [BaseFticks EXCEPT !.marker = "f-ticks"]}

\* Lines of neither layout: free text, and a line of white space only.
OtherLines ==
    {[BaseAccess EXCEPT !.kind = "text"],
     [BaseAccess EXCEPT !.kind = "blank"]}

Lines == AccessLines \cup FticksLines \cup OtherLines

RECURSIVE SeqsUpTo(_, _)
SeqsUpTo(S, n) ==
    IF n = 0 THEN {<<>>}
    ELSE LET shorter == SeqsUpTo(S, n - 1)
         IN  shorter \cup {Append(s, x) : s \in {t \in shorter : Len(t) = n - 1}, x \in S}

\* The lines the files of several lines are made of: lines of both layouts
\* that give records of different users, institutions, addresses, days and
\* outcomes, and lines that give no record.
CoreLines ==
    {BaseAccess,
     [BaseAccess EXCEPT !.ts = TsLater, !.kw = "Access-Reject", !.user = U_it],
     [BaseAccess EXCEPT !.ts = TsBadName],
     [BaseAccess EXCEPT !.kw = "Access-Challenge"],
     [BaseAccess EXCEPT !.user = None],
     [BaseAccess EXCEPT !.dest = None],
     [BaseAccess EXCEPT !.user = U_it, !.dest = I_sp2],
     [BaseAccess EXCEPT !.user = U_it, !.source = I_etlr, !.dest = I_sp2],
     [BaseAccess EXCEPT !.dest = I_sp2, !.ip = IP_ernet],
     [BaseAccess EXCEPT !.user = U_bob, !.dest = I_sp2, !.ip = IP_103],
     [BaseAccess EXCEPT !.tail = TRUE],
     [BaseAccess EXCEPT !.ts = TsLater, !.user = U_it, !.tail = TRUE],
     BaseFticks,
     [BaseFticks EXCEPT !.hasRealm = FALSE],
     [BaseFticks EXCEPT !.ts = TsLater, !.realm = R_it, !.result = <<"FAIL">>],
     [BaseFticks EXCEPT !.result = <<"ok">>],
     [BaseFticks EXCEPT !.realm = <<>>, !.result = <<>>],
     [BaseAccess EXCEPT !.kind = "text"]}

\* The files the model uploads: every file of one line of the vocabulary, and
\* every file of up to MaxLines lines of CoreLines.
Inputs == SeqsUpTo(CoreLines, MaxLines) \cup {<<line>> : line \in Lines}

(***************************************************************************)
(* pandas DataFrames: the column labels and the rows.  DataFrame(list of   *)
(* dicts) takes the union of the dicts' keys as its columns and fills the  *)
(* cells a dict lacks with NaN; an empty list gives a frame without        *)
(* columns.                                                                *)
(***************************************************************************)
EmptyFrame == [columns |-> {}, rows |-> <<>>]

\* Mutant of DataFrame: the rows come out in reverse order.
DataFrame_reversed(dicts) ==
    LET cols == UNION {DOMAIN dicts[i] : i \in 1..Len(dicts)}
        n    == Len(dicts)
    IN  [columns |-> cols,
         rows |-> [i \in 1..n |->
                     [c \in cols |-> IF c \in DOMAIN dicts[n + 1 - i]
                                     THEN dicts[n + 1 - i][c]
                                     ELSE None]]]

\* pd.DataFrame(list of dicts): one row per dict, a column per key, missing
\* cells null.
DataFrame(dicts) ==
    LET cols == UNION {DOMAIN dicts[i] : i \in 1..Len(dicts)}
    IN  [columns |-> cols,
         rows |-> [i \in 1..Len(dicts) |->
                     [c \in cols |-> IF c \in DOMAIN dicts[i] THEN dicts[i][c]
                                     ELSE None]]]

\* df[col] = f(df[col]) applied cell by cell
MapColumn(frame, col, f(_)) ==
    [frame EXCEPT !.rows =
        [i \in 1..Len(frame.rows) |->
            [c \in frame.columns |->
                IF c = col THEN f(frame.rows[i][c]) ELSE frame.rows[i][c]]]]

(***************************************************************************)
(* log_generator.py                                                        *)
(***************************************************************************)
\* line.decode("utf-8", errors="ignore"): the invalid bytes are dropped
Decode(line) == [line EXCEPT !.badbyte = FALSE]

\* re.IGNORECASE on the event keyword
KeywordLower(kw) ==
    CASE kw = "Access-Accept" -> "access-accept"
      [] kw = "Access-Reject" -> "access-reject"
      [] kw = "Access-Challenge" -> "access-challenge"
      [] OTHER -> kw

\* Mutant of access_pattern: the user name group is not optional.
access_pattern_user_required(line) ==
    /\ line.kind = "access"
    /\ ~line.badbyte
    /\ Len(line.ts.day) >= 1
    /\ KeywordLower(line.kw) \in {"access-accept", "access-reject"}
    /\ line.foruser
    /\ line.user # None
    /\ AllIn(line.user, WordChars \cup {"@", "."})
    /\ line.stationid # None
    /\ line.source # None
    /\ line.ip # None

\* access_pattern.search(line) is not None
access_pattern(line) ==
    /\ line.kind = "access"
    /\ ~line.badbyte
    \* (?P<timestamp>\w{3} \w{3} \d+ \d{2}:\d{2}:\d{2} \d{4}):
    /\ Len(line.ts.day) >= 1
    \* (?P<event>Access-(Accept|Reject)), re.IGNORECASE
    /\ KeywordLower(line.kw) \in {"access-accept", "access-reject"}
    \* " for user (?P<user>[\w@.]+)? ?stationid (?P<stationid>[0-9a-fA-F:-]+)"
    /\ line.foruser
    /\ line.user = None \/ AllIn(line.user, WordChars \cup {"@", "."})
    /\ line.stationid # None
    \* ".*?from (?P<source>\S+)"
    /\ line.source # None
    \* ".*?\((?P<ip>[\d.]+)\)?"
    /\ line.ip # None

\* the dict appended to access_logs from the groups of the match
access_dict(line) ==
    [Timestamp |-> line.ts,
     Event |-> <<line.kw>>,
     Username |-> line.user,
     StationID |-> line.stationid,
     Source |-> line.source,
     \* (?: to (?P<dest>\S+))?
     Destination |-> line.dest,
     ServerIP |-> line.ip,
     \* (?:.*?cui (?P<cui>[a-f0-9]+))? after the IP address
     CUI |-> line.cuiA]

\* fticks_pattern.search(line) is not None
fticks_pattern(line) ==
    /\ \/ line.kind = "fticks" /\ ~line.badbyte
       \/ line.kind = "access" /\ line.tail
    /\ Len(line.ts.day) >= 1
    \* F-TICKS/eduroam/1.0#REALM=[^#]*#
    /\ line.marker = "F-TICKS"
    /\ line.ver = "1.0"
    /\ line.hasRealm
    \* ...#RESULT=(?P<result>[^#]*)#
    /\ line.endhash

\* Mutant of reason: the comparison with "OK" ignores case.
reason_ignoring_case(result) ==
    IF result \in {<<"OK">>, <<"ok">>} THEN <<"Authentication successful">>
    ELSE <<"Authentication failed">>

\* reason = "Authentication successful" if result == "OK" else "Authentication failed"
reason(result) ==
    IF result = <<"OK">> THEN <<"Authentication successful">>
    ELSE <<"Authentication failed">>

\* the dict appended to fticks_logs
fticks_dict(line) ==
    [Timestamp |-> line.ts,
     VISCOUNTRY |-> line.viscountry,
     VISINST |-> line.visinst,
     CSI |-> line.csi,
     RESULT |-> line.result,
     Reason |-> reason(line.result)]

\* pd.to_datetime(..., errors="coerce") on one cell
to_datetime_coerce(ts) ==
    IF Convertible(ts) THEN DatetimeOf(ts) ELSE NaT

\* Mutant of extract_loop: the second check is an elif of the first.
extract_loop_elif ==
    /\ prog = "log_generator"
    /\ pc = "loop"
    /\ idx <= Len(input)
    /\ LET line == Decode(input[idx])
       IN  /\ access_logs' = IF access_pattern(line)
                             THEN Append(access_logs, access_dict(line))
                             ELSE access_logs
           /\ fticks_logs' = IF ~access_pattern(line) /\ fticks_pattern(line)
                             THEN Append(fticks_logs, fticks_dict(line))
                             ELSE fticks_logs
    /\ idx' = idx + 1
    /\ UNCHANGED <<mainVars, appVars>>
    /\ UNCHANGED <<prog, pc, input, df_access, df_fticks, records, df, st_error, error>>

\* One iteration of "for line in stream".
extract_loop ==
    /\ prog = "log_generator"
    /\ pc = "loop"
    /\ idx <= Len(input)
    /\ LET line == Decode(input[idx])
       IN  /\ access_logs' = IF access_pattern(line)
                             THEN Append(access_logs, access_dict(line))
                             ELSE access_logs
           /\ fticks_logs' = IF fticks_pattern(line)
                             THEN Append(fticks_logs, fticks_dict(line))
                             ELSE fticks_logs
    /\ idx' = idx + 1
    /\ UNCHANGED <<mainVars, appVars>>
    /\ UNCHANGED <<prog, pc, input, df_access, df_fticks, records, df, st_error, error>>

\* Lines 53-57 when df_access["Timestamp"] or df_fticks["Timestamp"] raises
\* KeyError: a frame built from an empty list has no Timestamp column.
extract_raise ==
    /\ prog = "log_generator"
    /\ pc = "loop"
    /\ idx > Len(input)
    /\ LET fa == DataFrame(access_logs)
           ff == DataFrame(fticks_logs)
       IN  /\ "Timestamp" \notin fa.columns \/ "Timestamp" \notin ff.columns
           /\ df_access' = IF "Timestamp" \in fa.columns
                           THEN MapColumn(fa, "Timestamp", to_datetime_coerce)
                           ELSE fa
           /\ df_fticks' = ff
    /\ pc' = "raised"
    /\ error' = "KeyError"
    /\ UNCHANGED <<mainVars, appVars>>
    /\ UNCHANGED <<prog, input, idx, access_logs, fticks_logs, records, df, st_error>>

\* Lines 53-59 when both conversions succeed: return df_access, df_fticks.
extract_return ==
    /\ prog = "log_generator"
    /\ pc = "loop"
    /\ idx > Len(input)
    /\ LET fa == DataFrame(access_logs)
           ff == DataFrame(fticks_logs)
       IN  /\ "Timestamp" \in fa.columns
           /\ "Timestamp" \in ff.columns
           /\ df_access' = MapColumn(fa, "Timestamp", to_datetime_coerce)
           /\ df_fticks' = MapColumn(ff, "Timestamp", to_datetime_coerce)
    /\ pc' = "returned"
    /\ UNCHANGED <<mainVars, appVars>>
    /\ UNCHANGED <<prog, input, idx, access_logs, fticks_logs, records, df, st_error, error>>

(***************************************************************************)
(* ritik.py: EduroamLogAnalyzer.parse_eduroam_log                          *)
(***************************************************************************)
\* The longest prefix of s made of characters of class: what a greedy
\* [class]+ consumes.
RECURSIVE ClassPrefix(_, _)
ClassPrefix(s, class) ==
    IF s = <<>> \/ s[1] \notin class THEN <<>>
    ELSE <<s[1]>> \o ClassPrefix(Tail(s), class)

\* The word that follows " for user " when the line carries no user name:
\* the keyword of the next segment of the line, or nothing before "(".
NextKeyword(line) ==
    IF line.stationid # None THEN <<"s","t","a","t","i","o","n","i","d">>
    ELSE IF line.cuiB # None THEN <<"c","u","i">>
    ELSE IF line.source # None THEN <<"f","r","o","m">>
    ELSE IF line.dest # None THEN <<"t","o">>
    ELSE <<>>

\* (?: for user (?P<user>[\w.@-]+))?
Analyzer_user(line) ==
    LET text == IF line.user # None THEN line.user ELSE NextKeyword(line)
        got  == ClassPrefix(text, WordChars \cup {".", "@", "-"})
    IN  IF line.foruser /\ got # <<>> THEN got ELSE None

\* Whether the optional groups up to the user name consumed the line up to
\* the next segment, so that the following optional group can match there.
Analyzer_user_consumed(line) ==
    \/ ~line.foruser
    \/ line.user # None /\ Analyzer_user(line) = line.user

\* Mutant of Analyzer_access_pattern: the parenthesised IP address is optional.
Analyzer_access_pattern_ip_optional(line) ==
    /\ line.kind = "access"
    /\ ~line.badbyte
    /\ line.pre = "none"
    /\ Len(line.ts.day) = 2
    /\ line.kw \in {"Access-Accept", "Access-Reject"}

\* access_pattern.match(line) is not None, for the stripped line
Analyzer_access_pattern(line) ==
    /\ line.kind = "access"
    /\ ~line.badbyte
    \* ^(?P<timestamp>\w{3} \w{3} \d{2} \d{2}:\d{2}:\d{2} \d{4}):
    /\ line.pre = "none"
    /\ Len(line.ts.day) = 2
    \* Access-(?P<status>Accept|Reject)
    /\ line.kw \in {"Access-Accept", "Access-Reject"}
    \* .*\((?P<ip>[\d.]+)\)
    /\ line.ip # None
    /\ line.closep

\* access_match.groupdict() with log_type
Analyzer_access_record(line) ==
    LET c == Analyzer_user_consumed(line)
    IN  [timestamp |-> line.ts,
         status |-> IF line.kw = "Access-Accept" THEN <<"Accept">> ELSE <<"Reject">>,
         user |-> Analyzer_user(line),
         \* (?: stationid (?P<stationid>[\w:.-]+))?
         stationid |-> IF c THEN line.stationid ELSE None,
         \* (?: cui (?P<cui>[\w]+))?
         cui |-> IF c THEN line.cuiB ELSE None,
         \* (?: from (?P<from_inst>[\w.-]+))?
         from_inst |-> IF c THEN line.source ELSE None,
         \* (?: to (?P<to_inst>[\w.-]+))?
         to_inst |-> IF c THEN line.dest ELSE None,
         ip |-> line.ip,
         \* (?:.* operator (?P<operator>[\w.-]+))?
         operator |-> line.operator,
         log_type |-> <<"access">>]

\* Mutant of Analyzer_fticks_pattern: the REALM segment is optional.
Analyzer_fticks_pattern_realm_optional(line) ==
    /\ line.kind = "fticks"
    /\ ~line.badbyte
    /\ line.pre = "none"
    /\ Len(line.ts.day) = 2
    /\ line.marker = "F-TICKS"
    /\ line.ver \in {"1.0", "1.1"}
    /\ line.endhash

\* fticks_pattern.match(line) is not None, for the stripped line
Analyzer_fticks_pattern(line) ==
    /\ line.kind = "fticks"
    /\ ~line.badbyte
    /\ line.pre = "none"
    /\ Len(line.ts.day) = 2
    \* F-TICKS/eduroam/[\d.]+#REALM=(?P<realm>[^#]*)#
    /\ line.marker = "F-TICKS"
    /\ line.ver \in {"1.0", "1.1"}
    /\ line.hasRealm
    /\ line.endhash

\* fticks_match.groupdict() with log_type
Analyzer_fticks_record(line) ==
    [timestamp |-> line.ts,
     realm |-> line.realm,
     viscountry |-> line.viscountry,
     visinst |-> line.visinst,
     csi |-> line.csi,
     result |-> line.result,
     log_type |-> <<"fticks">>]

\* pd.to_datetime(..., format='%a %b %d %H:%M:%S %Y') on one cell that converts
to_datetime_format(ts) == DatetimeOf(ts)

(***************************************************************************)
(* ritik.py: EduroamLogAnalyzer.enrich_log_data                            *)
(***************************************************************************)
\* Series.fillna(value) on one cell
fillna(cell, value) == IF cell = None THEN value ELSE cell

\* The index of the first c in s, or 0.
RECURSIVE Find(_, _, _)
Find(s, c, from) ==
    IF from > Len(s) THEN 0
    ELSE IF s[from] = c THEN from ELSE Find(s, c, from + 1)

\* Series.str.split('@').str[1] on one cell: the second piece, NaN if none.
split_at_1(user) ==
    LET p == Find(user, "@", 1)
    IN  IF p = 0 THEN None
        ELSE LET rest == SubSeq(user, p + 1, Len(user))
                 q    == Find(rest, "@", 1)
             IN  IF q = 0 THEN rest ELSE SubSeq(rest, 1, q - 1)

\* str(x) of a cell
str(cell) == IF cell = None THEN S_nan ELSE cell

\* Mutant of classify_user_type: the realm is compared without lower-casing.
classify_user_type_case_sensitive(user, realm, from_inst, to_inst) ==
    LET r == IF realm = None \/ realm = <<>> THEN <<>> ELSE realm
        inst_names == Lower(str(from_inst)) \o <<" ">> \o Lower(str(to_inst))
    IN  IF \E domain \in indian_institutions : Contains(str(r), domain)
        THEN <<"Indian">>
        ELSE IF \E iit \in indian_fragments : Contains(inst_names, iit)
        THEN <<"Indian">>
        ELSE <<"Foreign">>

\* def classify_user_type(user, realm, from_inst, to_inst)
classify_user_type(user, realm, from_inst, to_inst) ==
    LET r == IF realm = None \/ realm = <<>> THEN <<>> ELSE realm
        inst_names == Lower(str(from_inst)) \o <<" ">> \o Lower(str(to_inst))
    IN  IF \E domain \in indian_institutions : Contains(Lower(str(r)), domain)
        THEN <<"Indian">>
        ELSE IF \E iit \in indian_fragments : Contains(inst_names, iit)
        THEN <<"Indian">>
        ELSE <<"Foreign">>

get_country_from_realm(realm) ==
    IF realm = None \/ realm = <<>> THEN <<"Unknown">>
    ELSE LET r == Lower(str(realm))
         IN  IF Contains(r, <<".","i","n">>)
                \/ \E inst \in indian_institutions : Contains(r, inst)
             THEN <<"India">>
             ELSE IF Contains(r, <<".","i","t">>) THEN <<"Italy">>
             ELSE IF Contains(r, <<".","u","k">>)
                     \/ Contains(r, <<".","a","c",".","u","k">>) THEN <<"UK">>
             ELSE IF Contains(r, <<".","e","d","u">>) THEN <<"USA">>
             ELSE IF Contains(r, <<".","d","e">>) THEN <<"Germany">>
             ELSE IF Contains(r, <<".","f","r">>) THEN <<"France">>
             ELSE IF Contains(r, <<".","n","l">>) THEN <<"Netherlands">>
             ELSE IF Contains(r, <<".","s","e">>) THEN <<"Sweden">>
             ELSE <<"Unknown">>

get_visiting_location(from_inst, to_inst, ip) ==
    LET institutions == Lower(str(from_inst)) \o <<" ">> \o Lower(str(to_inst))
    IN  IF \/ \E iit \in indian_fragments : Contains(institutions, iit)
           \/ Contains(str(ip), <<"1","4",".","1","3","9",".">>)
           \/ Contains(str(ip), <<"1","0","3",".">>)
        THEN <<"India">>
        ELSE IF Contains(institutions, <<"e","d","u","r","o","a","m",".","o","r","g">>)
        THEN <<"International">>
        ELSE <<"Unknown">>

\* Mutant of is_roaming: an unknown home country counts as a different country.
is_roaming_unknown_home(home_country, visiting_country) ==
    home_country # visiting_country

\* df['is_roaming'] = (home != visiting) & (home != 'Unknown')
is_roaming(home_country, visiting_country) ==
    (home_country # visiting_country) /\ (home_country # <<"Unknown">>)

\* str.replace(old, '')
RECURSIVE replace(_, _)
replace(s, old) ==
    IF Len(s) < Len(old) THEN s
    ELSE IF SubSeq(s, 1, Len(old)) = old
    THEN replace(SubSeq(s, Len(old) + 1, Len(s)), old)
    ELSE <<Head(s)>> \o replace(Tail(s), old)

get_coordinates(inst_name, country) ==
    LET inst_key == replace(replace(Lower(str(inst_name)),
                                    <<"_","i","d","p","_","s","p">>),
                            <<"_","s","p">>)
    IN  IF inst_key \in DOMAIN institution_coordinates
        THEN institution_coordinates[inst_key]
        ELSE IF country \in DOMAIN country_coordinates
        THEN country_coordinates[country]
        ELSE <<0, 0>>

\* The states of numpy's global generator, which nothing seeds.
RandomStates == {0, 1}

\* The k-th value np.random.uniform(-0.1, 0.1, ...) draws from the generator
\* in the given state, in units of 0.0001 degree.
uniform(state, k) == (((state * 3 + k) * 700) % 2000) - 1000

\* 'Success' if x == 'Accept' else 'Failed'
connection_success(status) ==
    IF status = <<"Accept">> THEN <<"Success">> ELSE <<"Failed">>

\* df.get('realm', df['user'].str.split('@').str[1]).fillna('') on one row:
\* the realm column when the frame has one, the piece of the user name if not.
realm_of(frame, row, user) ==
    IF "realm" \in frame.columns THEN fillna(row["realm"], <<>>)
    ELSE fillna(split_at_1(user), <<>>)

EnrichedColumns ==
    {"realm", "user_type", "home_country", "visiting_country", "is_roaming",
     "latitude", "longitude", "connection_success"}

\* The row of the enriched frame for one row of the frame, before the random
\* variation of the coordinates.
enrich_row(frame, row) ==
    LET user      == fillna(row["user"], S_unknown)
        from_inst == fillna(row["from_inst"], S_unknown)
        to_inst   == fillna(row["to_inst"], S_unknown)
        realm     == realm_of(frame, row, user)
        home      == get_country_from_realm(realm)
        visiting  == get_visiting_location(from_inst, to_inst, row["ip"])
    IN  [c \in frame.columns \cup EnrichedColumns |->
            CASE c = "user" -> user
              [] c = "from_inst" -> from_inst
              [] c = "to_inst" -> to_inst
              [] c = "realm" -> realm
              [] c = "user_type" -> classify_user_type(user, realm, from_inst, to_inst)
              [] c = "home_country" -> home
              [] c = "visiting_country" -> visiting
              [] c = "is_roaming" -> is_roaming(home, visiting)
              [] c = "latitude" -> get_coordinates(to_inst, visiting)[1]
              [] c = "longitude" -> get_coordinates(to_inst, visiting)[2]
              [] c = "connection_success" -> connection_success(row["status"])
              [] OTHER -> row[c]]

\* The columns enrich_log_data reads with df[...]: a frame without one of
\* them raises KeyError.
EnrichReads == {"user", "from_inst", "to_inst", "ip", "status"}

\* The enriched frame when the generator is in the given state: the latitudes
\* take the first len(df) draws, the longitudes the next len(df).
enrich_frame(frame, state) ==
    LET n == Len(frame.rows)
    IN  [columns |-> frame.columns \cup EnrichedColumns,
         rows |-> [i \in 1..n |->
                    [enrich_row(frame, frame.rows[i]) EXCEPT
                        !["latitude"] = @ + uniform(state, i),
                        !["longitude"] = @ + uniform(state, n + i)]]]

(***************************************************************************)
(* ritik.py: main reads the upload and calls parse_eduroam_log.            *)
(***************************************************************************)
NoValidEntries ==
    <<"No valid eduroam log entries found. Please check your log file format.">>

\* log_content = str(uploaded_file.read(), "utf-8") when the file holds a byte
\* sequence that is not UTF-8.
main_read_raise ==
    /\ prog = "ritik"
    /\ pc = "upload"
    /\ \E i \in 1..Len(input) : input[i].badbyte
    /\ pc' = "raised"
    /\ error' = "UnicodeDecodeError"
    /\ UNCHANGED <<mainVars, appVars>>
    /\ UNCHANGED <<prog, input, idx, access_logs, fticks_logs, df_access,
                   df_fticks, records, df, st_error>>

\* log_content = str(uploaded_file.read(), "utf-8"); parse_eduroam_log is called.
main_read ==
    /\ prog = "ritik"
    /\ pc = "upload"
    /\ \A i \in 1..Len(input) : ~input[i].badbyte
    /\ pc' = "parse"
    /\ UNCHANGED <<mainVars, appVars>>
    /\ UNCHANGED <<prog, input, idx, access_logs, fticks_logs, df_access,
                   df_fticks, records, df, st_error, error>>

\* One iteration of "for line in lines": the stripped line is skipped when
\* empty, else matched against both patterns.
parse_loop ==
    /\ prog = "ritik"
    /\ pc = "parse"
    /\ idx <= Len(input)
    /\ LET line == input[idx]
           r1 == IF line.kind # "blank" /\ Analyzer_access_pattern(line)
                 THEN Append(records, Analyzer_access_record(line))
                 ELSE records
       IN  records' = IF line.kind # "blank" /\ Analyzer_fticks_pattern(line)
                      THEN Append(r1, Analyzer_fticks_record(line))
                      ELSE r1
    /\ idx' = idx + 1
    /\ UNCHANGED <<mainVars, appVars>>
    /\ UNCHANGED <<prog, pc, input, access_logs, fticks_logs, df_access,
                   df_fticks, df, st_error, error>>

\* if not records: st.error(...); return pd.DataFrame()
parse_empty ==
    /\ prog = "ritik"
    /\ pc = "parse"
    /\ idx > Len(input)
    /\ records = <<>>
    /\ st_error' = NoValidEntries
    /\ df' = EmptyFrame
    /\ pc' = "returned"
    /\ UNCHANGED <<mainVars, appVars>>
    /\ UNCHANGED <<prog, input, idx, access_logs, fticks_logs, df_access,
                   df_fticks, records, error>>

\* df = pd.DataFrame(records); pd.to_datetime(df['timestamp'], format=...)
\* raises ValueError on a text the format does not accept.
parse_convert_raise ==
    /\ prog = "ritik"
    /\ pc = "parse"
    /\ idx > Len(input)
    /\ records # <<>>
    /\ \E i \in 1..Len(records) : ~Convertible(records[i].timestamp)
    /\ df' = DataFrame(records)
    /\ pc' = "raised"
    /\ error' = "ValueError"
    /\ UNCHANGED <<mainVars, appVars>>
    /\ UNCHANGED <<prog, input, idx, access_logs, fticks_logs, df_access,
                   df_fticks, records, st_error>>

\* df = pd.DataFrame(records); df['timestamp'] = pd.to_datetime(...)
parse_convert ==
    /\ prog = "ritik"
    /\ pc = "parse"
    /\ idx > Len(input)
    /\ records # <<>>
    /\ \A i \in 1..Len(records) : Convertible(records[i].timestamp)
    /\ df' = MapColumn(DataFrame(records), "timestamp", to_datetime_format)
    /\ pc' = "enrich"
    /\ UNCHANGED <<mainVars, appVars>>
    /\ UNCHANGED <<prog, input, idx, access_logs, fticks_logs, df_access,
                   df_fticks, records, st_error, error>>

\* df = self.enrich_log_data(df) when a column it reads is missing: KeyError.
enrich_log_data_raise ==
    /\ prog = "ritik"
    /\ pc = "enrich"
    /\ ~(EnrichReads \subseteq df.columns)
    /\ pc' = "raised"
    /\ error' = "KeyError"
    /\ UNCHANGED <<mainVars, appVars>>
    /\ UNCHANGED <<prog, input, idx, access_logs, fticks_logs, df_access,
                   df_fticks, records, df, st_error>>

\* df = self.enrich_log_data(df); return df
enrich_log_data ==
    /\ prog = "ritik"
    /\ pc = "enrich"
    /\ EnrichReads \subseteq df.columns
    /\ \E state \in RandomStates : df' = enrich_frame(df, state)
    /\ pc' = "returned"
    /\ UNCHANGED <<mainVars, appVars>>
    /\ UNCHANGED <<prog, input, idx, access_logs, fticks_logs, df_access,
                   df_fticks, records, st_error, error>>

(***************************************************************************)
(* ritik.py: EduroamLogAnalyzer.analyze_movements                          *)
(***************************************************************************)
\* Series.unique(): the distinct values in their order of first appearance.
RECURSIVE unique(_)
unique(s) ==
    IF s = <<>> THEN <<>>
    ELSE LET front == unique(SubSeq(s, 1, Len(s) - 1))
         IN  IF \E i \in 1..Len(front) : front[i] = s[Len(s)] THEN front
             ELSE Append(front, s[Len(s)])

\* The column of a list of rows.
Column(rows, c) == [i \in 1..Len(rows) |-> rows[i][c]]

\* len(df[df[c] == v])
CountEq(rows, c, v) == Cardinality({i \in 1..Len(rows) : rows[i][c] = v})

\* Timestamp comparison a < b of two datetimes.
DatetimeLess(a, b) ==
    \E k \in 1..4 : a[k] < b[k] /\ \A j \in 1..(k - 1) : a[j] = b[j]

\* Mutant of sort_values: the rows stay in the order of the table.
sort_values_unsorted(rows) == rows

\* DataFrame.sort_values('timestamp'): ascending, rows of equal timestamp in
\* their original order.
RECURSIVE sort_values(_)
sort_values(rows) ==
    IF Len(rows) <= 1 THEN rows
    ELSE LET s == sort_values(SubSeq(rows, 1, Len(rows) - 1))
             x == rows[Len(rows)]
             k == Cardinality({i \in 1..Len(s) :
                      ~DatetimeLess(x["timestamp"], s[i]["timestamp"])})
         IN  SubSeq(s, 1, k) \o <<x>> \o SubSeq(s, k + 1, Len(s))

\* user_movements[user]
user_movement(rows, user) ==
    LET user_data == sort_values(SelectSeq(rows, LAMBDA r : r["user"] = user))
    IN  [user_type |-> user_data[1]["user_type"],
         home_country |-> user_data[1]["home_country"],
         movements |-> user_data,
         institutions_visited |-> unique(Column(user_data, "to_inst")),
         countries_visited |-> unique(Column(user_data, "visiting_country")),
         total_connections |-> Len(user_data),
         successful_connections |-> CountEq(user_data, "status", <<"Accept">>),
         is_roaming |-> \E i \in 1..Len(user_data) : user_data[i]["is_roaming"],
         roaming_sessions |-> CountEq(user_data, "is_roaming", TRUE)]

\* Mutant of institution_stat: roaming_users counts users, not records.
institution_stat_roaming_users(rows, inst) ==
    LET group == SelectSeq(rows, LAMBDA r : r["to_inst"] = inst)
        roaming == SelectSeq(group, LAMBDA r : r["is_roaming"])
    IN  [unique_users |-> Len(unique(Column(group, "user"))),
         successful_connections |-> CountEq(group, "status", <<"Accept">>),
         roaming_users |-> Len(unique(Column(roaming, "user")))]

\* df.groupby('to_inst').agg(...) for one group
institution_stat(rows, inst) ==
    LET group == SelectSeq(rows, LAMBDA r : r["to_inst"] = inst)
    IN  [unique_users |-> Len(unique(Column(group, "user"))),
         successful_connections |-> CountEq(group, "status", <<"Accept">>),
         roaming_users |-> CountEq(group, "is_roaming", TRUE)]

\* analyze_movements(df) for a table that is not empty
analyze_movements(frame) ==
    LET rows == frame.rows
        OfType(t) == SelectSeq(rows, LAMBDA r : r["user_type"] = t)
        users == {rows[i]["user"] : i \in 1..Len(rows)}
    IN  [total_users |-> Len(unique(Column(rows, "user"))),
         indian_users |-> Len(unique(Column(OfType(<<"Indian">>), "user"))),
         foreign_users |-> Len(unique(Column(OfType(<<"Foreign">>), "user"))),
         total_connections |-> Len(rows),
         successful_connections |-> CountEq(rows, "status", <<"Accept">>),
         failed_connections |-> CountEq(rows, "status", <<"Reject">>),
         roaming_sessions |-> CountEq(rows, "is_roaming", TRUE),
         countries_involved |-> Len(unique(Column(rows, "home_country"))),
         user_movements |->
             [user \in users \ {S_unknown} |-> user_movement(rows, user)],
         institution_stats |->
             [inst \in {rows[i]["to_inst"] : i \in 1..Len(rows)} |->
                 institution_stat(rows, inst)]]

(***************************************************************************)
(* ritik.py: main, one run of the dashboard script after another.  The     *)
(* session state lives across the runs, everything else is local to a run. *)
(***************************************************************************)
\* The session state before anything is stored in it.
EmptySessionState == [k \in {} |-> None]

\* Timestamp.date()
DateOf(dt) == <<dt[1], dt[2], dt[3]>>

\* date a <= date b
DateLeq(a, b) ==
    a = b \/ \E k \in 1..3 : a[k] < b[k] /\ \A j \in 1..(k - 1) : a[j] = b[j]

\* Timestamp.day_name()
day_name(dt) ==
    LET t == <<0, 3, 2, 5, 0, 3, 5, 1, 4, 6, 2, 4>>
        y == IF dt[2] < 3 THEN dt[1] - 1 ELSE dt[1]
        w == (y + (y \div 4) - (y \div 100) + (y \div 400) + t[dt[2]] + dt[3]) % 7
    IN  <<"Sunday", "Monday", "Tuesday", "Wednesday", "Thursday", "Friday",
          "Saturday">>[w + 1]

\* df['timestamp'].min().date() and df['timestamp'].max().date()
min_date(frame) ==
    CHOOSE d \in {DateOf(frame.rows[i]["timestamp"]) : i \in 1..Len(frame.rows)} :
        \A i \in 1..Len(frame.rows) : DateLeq(d, DateOf(frame.rows[i]["timestamp"]))

max_date(frame) ==
    CHOOSE d \in {DateOf(frame.rows[i]["timestamp"]) : i \in 1..Len(frame.rows)} :
        \A i \in 1..Len(frame.rows) : DateLeq(DateOf(frame.rows[i]["timestamp"]), d)

\* The values the sidebar widgets return when the user leaves them alone.
default_filters(frame) ==
    [user_type_filter |-> {<<"Indian">>, <<"Foreign">>},
     status_filter |-> {<<"Accept">>, <<"Reject">>},
     country_filter |->
         {frame.rows[i]["home_country"] : i \in 1..Len(frame.rows)},
     roaming_filter |-> "All",
     date_range |-> <<min_date(frame), max_date(frame)>>]

\* df_filtered = df[...] with the roaming selection: a new table.
apply_filters(frame, f) ==
    LET keep(r) ==
            /\ r["user_type"] \in f.user_type_filter
            /\ r["status"] \in f.status_filter
            /\ r["home_country"] \in f.country_filter
            /\ DateLeq(f.date_range[1], DateOf(r["timestamp"]))
            /\ DateLeq(DateOf(r["timestamp"]), f.date_range[2])
            /\ f.roaming_filter = "Roaming Only" => r["is_roaming"]
            /\ f.roaming_filter = "Non-Roaming Only" => ~r["is_roaming"]
    IN  [columns |-> frame.columns, rows |-> SelectSeq(frame.rows, keep)]

\* The columns the charts write into df_filtered when it is not empty.
DisplayColumns == {"hour", "date", "day_of_week"}

\* df_filtered['hour'] = ..., df_filtered['date'] = ...,
\* df_filtered['day_of_week'] = ... on a table that is not empty.
add_display_columns(frame) ==
    IF frame.rows = <<>> THEN frame
    ELSE [columns |-> frame.columns \cup DisplayColumns,
          rows |-> [i \in 1..Len(frame.rows) |->
                     [c \in frame.columns \cup DisplayColumns |->
                        CASE c = "hour" -> frame.rows[i]["timestamp"][4] \div 3600
                          [] c = "date" -> DateOf(frame.rows[i]["timestamp"])
                          [] c = "day_of_week" ->
                                 day_name(frame.rows[i]["timestamp"])
                          [] OTHER -> frame.rows[i][c]]]]

\* Mutant of main_store: the returned table is stored whether or not it is
\* empty.
main_store_always ==
    /\ prog = "ritik"
    /\ pc = "returned"
    /\ session_state' =
          [k \in {"df", "analysis"} |->
              IF k = "df" THEN df
              ELSE IF df.rows # <<>> THEN analyze_movements(df) ELSE <<>>]
    /\ pc' = "content"
    /\ UNCHANGED <<prog, input, idx, access_logs, fticks_logs, df_access,
                   df_fticks, records, df, st_error, error, df_filtered,
                   uploaded>>
    /\ UNCHANGED appVars

\* if not df.empty: the table and its analysis are stored in the session and
\* the sidebar filters are defined.
main_store ==
    /\ prog = "ritik"
    /\ pc = "returned"
    /\ session_state' =
          IF df.rows # <<>>
          THEN [k \in {"df", "analysis"} |->
                   IF k = "df" THEN df ELSE analyze_movements(df)]
          ELSE session_state
    /\ pc' = "content"
    /\ UNCHANGED <<prog, input, idx, access_logs, fticks_logs, df_access,
                   df_fticks, records, df, st_error, error, df_filtered,
                   uploaded>>
    /\ UNCHANGED appVars

\* "Main content": the stored table is displayed, filtered when the filters
\* are defined in this run, else as it is; without a stored table the
\* welcome screen is shown.  Unfiltered, df_filtered is the stored table
\* itself, and what the charts write into it is written into the session.
main_content ==
    /\ prog = "ritik"
    /\ pc = "content"
    /\ IF "df" \in DOMAIN session_state
       THEN LET stored == session_state["df"]
            IN  IF uploaded /\ df.rows # <<>>
                THEN /\ df_filtered' = add_display_columns(
                                apply_filters(stored, default_filters(df)))
                     /\ UNCHANGED session_state
                ELSE /\ df_filtered' = add_display_columns(stored)
                     /\ session_state' =
                           [session_state EXCEPT
                               !["df"] = add_display_columns(stored)]
       ELSE /\ df_filtered' = None
            /\ UNCHANGED session_state
    /\ pc' = "done"
    /\ UNCHANGED <<prog, input, idx, access_logs, fticks_logs, df_access,
                   df_fticks, records, df, st_error, error, uploaded>>
    /\ UNCHANGED appVars

\* The files uploaded in the later runs.
RerunInputs ==
    {<<[BaseAccess EXCEPT !.kind = "text"]>>,
     <<[BaseAccess EXCEPT !.ts = TsLater, !.kw = "Access-Reject", !.user = U_it]>>}

\* The script runs again with another file in the uploader.
main_rerun_upload ==
    /\ prog = "ritik"
    /\ pc = "done"
    /\ uploaded' = TRUE
    /\ input' \in RerunInputs
    /\ pc' = "upload"
    /\ idx' = 1
    /\ records' = <<>>
    /\ df' = EmptyFrame
    /\ st_error' = <<>>
    /\ df_filtered' = None
    /\ UNCHANGED <<prog, access_logs, fticks_logs, df_access, df_fticks, error,
                   session_state>>
    /\ UNCHANGED appVars

\* The script runs again after the file was removed from the uploader.
main_rerun_no_file ==
    /\ prog = "ritik"
    /\ pc = "done"
    /\ uploaded' = FALSE
    /\ input' = <<>>
    /\ pc' = "content"
    /\ idx' = 1
    /\ records' = <<>>
    /\ df' = EmptyFrame
    /\ st_error' = <<>>
    /\ df_filtered' = None
    /\ UNCHANGED <<prog, access_logs, fticks_logs, df_access, df_fticks, error,
                   session_state>>
    /\ UNCHANGED appVars

(***************************************************************************)
(* app.py: the dashboard over extract_summary_tables_from_stream.  The      *)
(* sidebar widgets are left at the values they are created with.           *)
(***************************************************************************)
\* extract_domain(email)
extract_domain(email) ==
    IF email # None /\ Find(email, "@", 1) # 0
    THEN Lower(split_at_1(email))
    ELSE None

\* a <= b of two datetimes; a comparison with NaT is False.
DatetimeLeq(a, b) ==
    a # NaT /\ b # NaT /\ (a = b \/ DatetimeLess(a, b))

\* df_access["Timestamp"].min() and .max(): NaT is skipped.
Timestamp_min(frame) ==
    LET ts == {frame.rows[i]["Timestamp"] : i \in 1..Len(frame.rows)} \ {NaT}
    IN  CHOOSE t \in ts : \A u \in ts : DatetimeLeq(t, u)

Timestamp_max(frame) ==
    LET ts == {frame.rows[i]["Timestamp"] : i \in 1..Len(frame.rows)} \ {NaT}
    IN  CHOOSE t \in ts : \A u \in ts : DatetimeLeq(u, t)

\* st.sidebar.date_input("Select Date Range", [min_date, max_date]) left
\* alone: the widget returns its initial values as dates.
date_input(value) == <<DateOf(value[1]), DateOf(value[2])>>

\* pd.to_datetime(date): the midnight that begins the date.
to_datetime_date(d) == <<d[1], d[2], d[3], 0>>

\* sort_values(by="Timestamp", ascending=False) of rows without NaT; rows of
\* equal Timestamp are kept in their order.
RECURSIVE sort_values_descending(_)
sort_values_descending(rows) ==
    IF Len(rows) <= 1 THEN rows
    ELSE LET s == sort_values_descending(SubSeq(rows, 1, Len(rows) - 1))
             x == rows[Len(rows)]
             k == Cardinality({i \in 1..Len(s) :
                      ~DatetimeLess(s[i]["Timestamp"], x["Timestamp"])})
         IN  SubSeq(s, 1, k) \o <<x>> \o SubSeq(s, k + 1, Len(s))

\* df_access["Domain"] = df_access["Username"].apply(extract_domain)
with_Domain(frame) ==
    [columns |-> frame.columns \cup {"Domain"},
     rows |-> [i \in 1..Len(frame.rows) |->
                 [c \in frame.columns \cup {"Domain"} |->
                     IF c = "Domain"
                     THEN extract_domain(frame.rows[i]["Username"])
                     ELSE frame.rows[i][c]]]]

\* access_df_filtered after the date range (lines 26-35), the event types
\* (37-41), the empty domain and station selections (43-49) and the sort (51).
filter_access(frame) ==
    LET date_range == date_input(<<Timestamp_min(frame), Timestamp_max(frame)>>)
        start_date == to_datetime_date(date_range[1])
        end_date == to_datetime_date(date_range[2])
        dated == SelectSeq(frame.rows, LAMBDA r :
                     /\ DatetimeLeq(start_date, r["Timestamp"])
                     /\ DatetimeLeq(r["Timestamp"], end_date))
        selected_events == {dated[i]["Event"] : i \in 1..Len(dated)} \ {None}
        evented == SelectSeq(dated, LAMBDA r : r["Event"] \in selected_events)
    IN  [columns |-> frame.columns, rows |-> sort_values_descending(evented)]

\* if uploaded_file: the tables are returned, the Domain column is added and
\* the Access table is filtered for display.
app_access_filter ==
    /\ prog = "log_generator"
    /\ pc = "returned"
    /\ \E i \in 1..Len(df_access.rows) : df_access.rows[i]["Timestamp"] # NaT
    /\ df_access' = with_Domain(df_access)
    /\ access_df_filtered' = filter_access(with_Domain(df_access))
    /\ pc' = "filtered"
    /\ UNCHANGED mainVars
    /\ UNCHANGED <<prog, input, idx, access_logs, fticks_logs, df_fticks,
                   records, df, st_error, error>>

\* The same when no Timestamp of the Access table converted: min_date and
\* max_date are NaT, of which date_input cannot take the date.
app_access_filter_raise ==
    /\ prog = "log_generator"
    /\ pc = "returned"
    /\ \A i \in 1..Len(df_access.rows) : df_access.rows[i]["Timestamp"] = NaT
    /\ df_access' = with_Domain(df_access)
    /\ pc' = "app_raised"
    /\ error' = "ValueError"
    /\ UNCHANGED mainVars
    /\ UNCHANGED appVars
    /\ UNCHANGED <<prog, input, idx, access_logs, fticks_logs, df_fticks,
                   records, df, st_error>>

(***************************************************************************)
(* The specification.                                                      *)
(***************************************************************************)
Init ==
    /\ prog \in {"log_generator", "ritik"}
    /\ input \in Inputs
    /\ pc = IF prog = "log_generator" THEN "loop" ELSE "upload"
    /\ idx = 1
    /\ access_logs = <<>>
    /\ fticks_logs = <<>>
    /\ df_access = EmptyFrame
    /\ df_fticks = EmptyFrame
    /\ records = <<>>
    /\ df = EmptyFrame
    /\ st_error = <<>>
    /\ error = NoError
    /\ session_state = EmptySessionState
    /\ df_filtered = None
    /\ uploaded = TRUE
    /\ access_df_filtered = None

Next ==
    \/ extract_loop
    \/ extract_raise
    \/ extract_return
    \/ app_access_filter
    \/ app_access_filter_raise
    \/ main_read_raise
    \/ main_read
    \/ parse_loop
    \/ parse_empty
    \/ parse_convert_raise
    \/ parse_convert
    \/ enrich_log_data_raise
    \/ enrich_log_data
    \/ main_store
    \/ main_content
    \/ main_rerun_upload
    \/ main_rerun_no_file

Spec == Init /\ [][Next]_vars

(***************************************************************************)
(* Properties.                                                             *)
(***************************************************************************)
\* The parsing loop of each entry point stands before line idx.
LgAtLine == prog = "log_generator" /\ pc = "loop" /\ idx <= Len(input)

RitikAtLine == prog = "ritik" /\ pc = "parse" /\ idx <= Len(input)

Last(s) == s[Len(s)]

\* The records of log_type 'access' (resp. 'fticks') in a list of groupdicts.
AccessRecords(recs) == SelectSeq(recs, LAMBDA r : r.log_type = <<"access">>)

FticksRecords(recs) == SelectSeq(recs, LAMBDA r : r.log_type = <<"fticks">>)

\* parse_eduroam_log has returned an enriched table.
Enriched ==
    prog = "ritik" /\ pc = "returned" /\ error = NoError /\ df.rows # <<>>

\* C1: extract_summary_tables_from_stream raises no error for any input
\* stream of byte lines and always returns the two tables (two empty tables
\* when no line matches, one empty table when only one grammar matches).
C1_ExtractNeverRaises ==
    (prog = "log_generator" /\ pc \in {"loop", "returned", "raised"}) =>
        pc # "raised" /\ error = NoError

\* C2: in parse_eduroam_log a matched line whose timestamp text cannot be
\* converted under the fixed format still yields its record, with a null
\* timestamp; the conversion does not raise.
C2_UnconvertibleTimestampIsNull ==
    prog = "ritik" =>
        /\ error # "ValueError"
        /\ pc = "enrich" =>
              /\ Len(df.rows) = Len(records)
              /\ \A i \in 1..Len(records) :
                    ~Convertible(records[i].timestamp)
                        => df.rows[i]["timestamp"] = NaT

\* C3: extract_summary_tables_from_stream outputs, for each grammar, a table
\* with one row per matching line whether or not the timestamps convert: a
\* row whose timestamp does not convert has Timestamp null, and nothing else
\* of any row changes.  Stated for the files with an Access line whose
\* timestamp does not convert.
C3_RowsKeptWhateverTimestamp ==
    (/\ prog = "log_generator"
     /\ pc \in {"returned", "raised"}
     /\ \E i \in 1..Len(access_logs) : ~Convertible(access_logs[i].Timestamp)) =>
        /\ pc = "returned"
        /\ Len(df_access.rows)
              = Cardinality({i \in 1..Len(input) : access_pattern(Decode(input[i]))})
        /\ Len(df_fticks.rows)
              = Cardinality({i \in 1..Len(input) : fticks_pattern(Decode(input[i]))})
        /\ \A i \in 1..Len(df_access.rows) :
              /\ ~Convertible(access_logs[i].Timestamp)
                    => df_access.rows[i]["Timestamp"] = NaT
              /\ \A c \in df_access.columns \ {"Timestamp"} :
                    df_access.rows[i][c] = access_logs[i][c]
        /\ \A i \in 1..Len(df_fticks.rows) :
              /\ ~Convertible(fticks_logs[i].Timestamp)
                    => df_fticks.rows[i]["Timestamp"] = NaT
              /\ \A c \in df_fticks.columns \ {"Timestamp"} :
                    df_fticks.rows[i][c] = fticks_logs[i][c]

\* C4: for every F-TICKS record of extract_summary_tables_from_stream, Reason
\* is "Authentication successful" iff RESULT is exactly "OK", and
\* "Authentication failed" for every other RESULT; there is no third value.
ReasonIsBinary(r) ==
    /\ r["Reason"] \in {<<"Authentication successful">>, <<"Authentication failed">>}
    /\ (r["Reason"] = <<"Authentication successful">>) <=> (r["RESULT"] = <<"OK">>)

C4_ReasonIffResultOK ==
    /\ \A i \in 1..Len(fticks_logs) : ReasonIsBinary(fticks_logs[i])
    /\ \A i \in 1..Len(df_fticks.rows) : ReasonIsBinary(df_fticks.rows[i])

\* Witness of C4: returned tables with a row RESULT "OK" marked successful
\* and a row RESULT "ok" marked failed.
C4_Witness ==
    /\ prog = "log_generator"
    /\ pc = "returned"
    /\ \E i, j \in 1..Len(df_fticks.rows) :
          /\ df_fticks.rows[i]["RESULT"] = <<"OK">>
          /\ df_fticks.rows[i]["Reason"] = <<"Authentication successful">>
          /\ df_fticks.rows[j]["RESULT"] = <<"ok">>
          /\ df_fticks.rows[j]["Reason"] = <<"Authentication failed">>

\* A well-formed Access line: it starts with a timestamp written in the fixed
\* format, then the Access-Accept or Access-Reject keyword, "for user" with a
\* user name of word characters, "@" and ".", a station id, a source and the
\* parenthesised IP address.
WellFormedAccess(line) ==
    /\ line.kind = "access"
    /\ line.pre = "none"
    /\ ~line.badbyte
    /\ Len(line.ts.day) = 2
    /\ line.kw \in {"Access-Accept", "Access-Reject"}
    /\ line.foruser
    /\ line.user # None
    /\ AllIn(line.user, WordChars \cup {"@", "."})
    /\ line.stationid # None
    /\ line.source # None
    /\ line.ip # None
    /\ line.closep

\* An Access line without the parenthesised IP address or without the
\* Access-Accept / Access-Reject keyword.
LacksIpOrKeyword(line) ==
    /\ line.kind = "access"
    /\ \/ line.ip = None
       \/ KeywordLower(line.kw) \notin {"access-accept", "access-reject"}

\* The list grew by exactly one element.
GrewByOne(old, new) ==
    Len(new) = Len(old) + 1 /\ SubSeq(new, 1, Len(old)) = old

MandatoryGroups(line) ==
    /\ line.kind = "access"
    /\ Len(line.ts.day) >= 1
    /\ KeywordLower(line.kw) \in {"access-accept", "access-reject"}
    /\ line.ip # None

\* Every field the line lacks is null in the dict.
AbsentReportedNull(line, r) ==
    /\ line.user = None => r.Username = None
    /\ line.stationid = None => r.StationID = None
    /\ line.source = None => r.Source = None
    /\ line.dest = None => r.Destination = None
    /\ (line.cuiA = None /\ line.cuiB = None) => r.CUI = None

\* C6 as stated: extract_summary_tables_from_stream accepts a line as an
\* Access record whenever its timestamp, event keyword and parenthesised IP
\* match; any other field absent from the line (username, station id, source,
\* destination, CUI) is null and never makes the line skipped.
C6_Original ==
    [][(LgAtLine /\ MandatoryGroups(Decode(input[idx]))) =>
          /\ GrewByOne(access_logs, access_logs')
          /\ AbsentReportedNull(input[idx], Last(access_logs'))
      ]_vars

\* The segments the line must carry besides the three mandatory groups:
\* "for user", a station id and a source; a user name, when there is one, is
\* made of word characters, "@" and ".".
RequiredSegments(line) ==
    /\ line.foruser
    /\ line.user = None \/ AllIn(line.user, WordChars \cup {"@", "."})
    /\ line.stationid # None
    /\ line.source # None

\* C6 as amended: the line is accepted whenever its timestamp, event keyword,
\* "for user", station id, source and parenthesised IP match; the username,
\* destination and CUI, when absent, are null and never make the line skipped.
C6_OptionalFieldsNull ==
    [][(/\ LgAtLine
        /\ MandatoryGroups(Decode(input[idx]))
        /\ RequiredSegments(input[idx])) =>
          /\ GrewByOne(access_logs, access_logs')
          /\ AbsentReportedNull(input[idx], Last(access_logs'))
      ]_vars

\* Witness of C6: a line without user name and a line without destination
\* have both been accepted, with Username, Destination and CUI null.
C6_Witness ==
    /\ prog = "log_generator"
    /\ idx = 3
    /\ input[1].kind = "access" /\ input[1].user = None
    /\ input[2].kind = "access" /\ input[2].dest = None
    /\ Len(access_logs) = 2
    /\ access_logs[1].Username = None
    /\ access_logs[2].Destination = None
    /\ access_logs[2].CUI = None

\* An F-TICKS line that starts with a timestamp of the fixed format and the
\* marker F-TICKS/eduroam/1.0# and carries the segments VISCOUNTRY, VISINST,
\* CSI and RESULT, each closed by "#".
FticksSegments(line) ==
    /\ line.kind = "fticks"
    /\ line.pre = "none"
    /\ ~line.badbyte
    /\ Len(line.ts.day) = 2
    /\ line.marker = "F-TICKS"
    /\ line.ver = "1.0"
    /\ line.endhash

\* The dict of fticks_logs carries the four values of the line.
LgFourValues(line, r) ==
    /\ r.VISCOUNTRY = line.viscountry
    /\ r.VISINST = line.visinst
    /\ r.CSI = line.csi
    /\ r.RESULT = line.result

\* The groupdict of records carries the four values of the line.
RitikFourValues(line, r) ==
    /\ r.log_type = <<"fticks">>
    /\ r.viscountry = line.viscountry
    /\ r.visinst = line.visinst
    /\ r.csi = line.csi
    /\ r.result = line.result

\* C7 as stated: the REALM segment is optional; a line with a valid timestamp
\* and marker that carries only VISCOUNTRY, VISINST, CSI and RESULT still
\* yields one F-TICKS record with those four values.
C7_Original ==
    [][/\ (LgAtLine /\ FticksSegments(input[idx]) /\ ~input[idx].hasRealm) =>
              /\ GrewByOne(fticks_logs, fticks_logs')
              /\ LgFourValues(input[idx], Last(fticks_logs'))
       /\ (RitikAtLine /\ FticksSegments(input[idx]) /\ ~input[idx].hasRealm) =>
              /\ GrewByOne(records, records')
              /\ RitikFourValues(input[idx], Last(records'))
      ]_vars

\* C7 as amended: the REALM segment is required, its value may be empty; a
\* line with the five segments yields one F-TICKS record with the four values
\* of VISCOUNTRY, VISINST, CSI and RESULT, and a line without the REALM segment
\* yields no F-TICKS record.
C7_RealmSegmentRequired ==
    [][/\ (LgAtLine /\ FticksSegments(input[idx])) =>
              IF input[idx].hasRealm
              THEN /\ GrewByOne(fticks_logs, fticks_logs')
                   /\ LgFourValues(input[idx], Last(fticks_logs'))
              ELSE fticks_logs' = fticks_logs
       /\ (RitikAtLine /\ FticksSegments(input[idx])) =>
              IF input[idx].hasRealm
              THEN /\ GrewByOne(records, records')
                   /\ RitikFourValues(input[idx], Last(records'))
              ELSE records' = records
      ]_vars

\* Witness of C7: parse_eduroam_log has read a line whose REALM is empty and a
\* line without REALM segment, and holds the record of the first only.
C7_Witness ==
    /\ prog = "ritik"
    /\ pc = "parse"
    /\ idx = 3
    /\ FticksSegments(input[1]) /\ input[1].hasRealm /\ input[1].realm = <<>>
    /\ FticksSegments(input[2]) /\ ~input[2].hasRealm
    /\ Len(records) = 1
    /\ RitikFourValues(input[1], records[1])

\* C8: for every record of the enriched table is_roaming is true if and only
\* if home_country differs from visiting_country and home_country is not
\* "Unknown"; no record with home_country "Unknown" is flagged roaming.
C8_RoamingIffKnownHomeDiffers ==
    Enriched =>
        \A i \in 1..Len(df.rows) :
            LET row == df.rows[i]
            IN  /\ row["is_roaming"] =
                      (/\ row["home_country"] # row["visiting_country"]
                       /\ row["home_country"] # <<"Unknown">>)
                /\ row["home_country"] = <<"Unknown">> => ~row["is_roaming"]

\* Witness of C8: the enriched table holds a record with unknown home and
\* visiting country India that is not roaming, and a roaming record.
C8_Witness ==
    /\ Enriched
    /\ \E i \in 1..Len(df.rows) :
          /\ df.rows[i]["home_country"] = <<"Unknown">>
          /\ df.rows[i]["visiting_country"] = <<"India">>
          /\ ~df.rows[i]["is_roaming"]
    /\ \E j \in 1..Len(df.rows) :
          /\ df.rows[j]["home_country"] = <<"Italy">>
          /\ df.rows[j]["visiting_country"] = <<"India">>
          /\ df.rows[j]["is_roaming"]

\* The substring of the user name after its first "@", empty without "@".
AfterFirstAt(user) ==
    LET p == Find(user, "@", 1)
    IN  IF p = 0 THEN <<>> ELSE SubSeq(user, p + 1, Len(user))

\* C9: for every access record of the enriched table, in every input file
\* (files with F-TICKS lines included), the realm is the substring of the
\* username after its first "@", and the empty string without "@".
C9_RealmAfterFirstAt ==
    Enriched =>
        \A i \in 1..Len(df.rows) :
            df.rows[i]["log_type"] = <<"access">> =>
                df.rows[i]["realm"] = AfterFirstAt(df.rows[i]["user"])

\* The realm holds one of the listed domains, or one of the two institution
\* names holds one of the fragments, all in lower case.
DomesticEvidence(row) ==
    \/ \E domain \in indian_institutions :
          Contains(Lower(row["realm"]), domain)
    \/ \E iit \in indian_fragments :
          \/ Contains(Lower(row["from_inst"]), iit)
          \/ Contains(Lower(row["to_inst"]), iit)

\* C10: for every enriched record user_type is Indian if and only if the
\* lower-cased realm contains a listed institution domain or the lower-cased
\* source and destination institution names contain one of the fragments iit,
\* iisc, iiser, nit, and Foreign otherwise; a record whose realm is iitd.ac.in
\* is Indian whatever its destination institution.
C10_IndianIffDomesticEvidence ==
    Enriched =>
        \A i \in 1..Len(df.rows) :
            LET row == df.rows[i]
            IN  /\ row["user_type"] =
                      IF DomesticEvidence(row) THEN <<"Indian">>
                      ELSE <<"Foreign">>
                /\ row["realm"] = R_iitd => row["user_type"] = <<"Indian">>

\* Witness of C10: a record with realm iitd.ac.in whose institution names hold
\* no fragment is Indian, and a record without any evidence is Foreign.
C10_Witness ==
    /\ Enriched
    /\ \E i \in 1..Len(df.rows) :
          /\ df.rows[i]["realm"] = R_iitd
          /\ \A iit \in indian_fragments :
                /\ ~Contains(Lower(df.rows[i]["from_inst"]), iit)
                /\ ~Contains(Lower(df.rows[i]["to_inst"]), iit)
          /\ df.rows[i]["user_type"] = <<"Indian">>
    /\ \E j \in 1..Len(df.rows) :
          /\ ~DomesticEvidence(df.rows[j])
          /\ df.rows[j]["user_type"] = <<"Foreign">>

\* The text ends with the suffix.
EndsWith(s, f) ==
    Len(s) >= Len(f) /\ SubSeq(s, Len(s) - Len(f) + 1, Len(s)) = f

\* The text begins with the prefix.
StartsWith(s, f) ==
    Len(s) >= Len(f) /\ SubSeq(s, 1, Len(f)) = f

\* The suffix rules in their order of evaluation, the domestic rule first.
SuffixRules ==
    <<[suffixes |-> {<<".","i","n">>} \cup indian_institutions,
       country |-> <<"India">>],
      [suffixes |-> {<<".","i","t">>}, country |-> <<"Italy">>],
      [suffixes |-> {<<".","u","k">>}, country |-> <<"UK">>],
      [suffixes |-> {<<".","e","d","u">>}, country |-> <<"USA">>],
      [suffixes |-> {<<".","d","e">>}, country |-> <<"Germany">>],
      [suffixes |-> {<<".","f","r">>}, country |-> <<"France">>],
      [suffixes |-> {<<".","n","l">>}, country |-> <<"Netherlands">>],
      [suffixes |-> {<<".","s","e">>}, country |-> <<"Sweden">>]>>

\* The country of the first rule, from rule k on, one of whose suffixes the
\* realm ends with; "Unknown" when there is none.
RECURSIVE FirstSuffixRule(_, _)
FirstSuffixRule(realm, k) ==
    IF k > Len(SuffixRules) THEN <<"Unknown">>
    ELSE IF \E f \in SuffixRules[k].suffixes : EndsWith(realm, f)
    THEN SuffixRules[k].country
    ELSE FirstSuffixRule(realm, k + 1)

\* C11: home_country is the jurisdiction of the first rule, in the order
\* India, Italy, UK, USA, Germany, France, Netherlands, Sweden, whose suffix
\* the lower-cased realm ends with, and "Unknown" when the realm is empty or
\* ends with none of the suffixes.
C11_HomeCountryBySuffix ==
    Enriched =>
        \A i \in 1..Len(df.rows) :
            df.rows[i]["home_country"] =
                FirstSuffixRule(Lower(df.rows[i]["realm"]), 1)

\* One of the two institution names holds a domestic fragment.
NamesHoldFragment(row) ==
    \E iit \in indian_fragments :
        \/ Contains(Lower(row["from_inst"]), iit)
        \/ Contains(Lower(row["to_inst"]), iit)

\* The server address of the row begins with a domestic prefix.
IpBeginsDomestic(row) ==
    /\ row["ip"] # None
    /\ \/ StartsWith(row["ip"], <<"1","4",".","1","3","9",".">>)
       \/ StartsWith(row["ip"], <<"1","0","3",".">>)

\* One of the two institution names holds eduroam.org.
NamesHoldEduroamOrg(row) ==
    \/ Contains(Lower(row["from_inst"]),
                <<"e","d","u","r","o","a","m",".","o","r","g">>)
    \/ Contains(Lower(row["to_inst"]),
                <<"e","d","u","r","o","a","m",".","o","r","g">>)

\* C12: visiting_country is "India" if and only if the institution names
\* contain a domestic fragment or the server IP address begins with 14.139.
\* or 103.; otherwise it is "International" if the institution names contain
\* eduroam.org, and "Unknown" in every remaining case.
C12_VisitingCountryByPrefix ==
    Enriched =>
        \A i \in 1..Len(df.rows) :
            LET row == df.rows[i]
            IN  row["visiting_country"] =
                    IF NamesHoldFragment(row) \/ IpBeginsDomestic(row)
                    THEN <<"India">>
                    ELSE IF NamesHoldEduroamOrg(row) THEN <<"International">>
                    ELSE <<"Unknown">>

\* The values a derived field can take, fallback values included.
DefinedCountries ==
    {<<"India">>, <<"Italy">>, <<"UK">>, <<"USA">>, <<"Germany">>,
     <<"France">>, <<"Netherlands">>, <<"Sweden">>, <<"Unknown">>}

\* C13: enrich_log_data never raises for a non-empty table produced by the
\* parsing loop of parse_eduroam_log, a table of F-TICKS lines only or of
\* Access lines only included, and every derived field then takes a defined
\* value ("Unknown", "Foreign" and the empty string being the fallbacks).
C13_EnrichNeverRaises ==
    (prog = "ritik" /\ records # <<>>) =>
        /\ error # "KeyError"
        /\ pc = "returned" =>
              \A i \in 1..Len(df.rows) :
                  /\ df.rows[i]["realm"] # None
                  /\ df.rows[i]["user_type"] \in {<<"Indian">>, <<"Foreign">>}
                  /\ df.rows[i]["home_country"] \in DefinedCountries
                  /\ df.rows[i]["visiting_country"] \in
                        {<<"India">>, <<"International">>, <<"Unknown">>}

\* The strip()ped line matches one of the two patterns of parse_eduroam_log.
RitikRecognised(line) ==
    /\ line.kind # "blank"
    /\ Analyzer_access_pattern(line) \/ Analyzer_fticks_pattern(line)

\* The decoded line matches access_pattern of log_generator.py.
LgAccessMatch(line) == access_pattern(Decode(line))

\* The line carries no user name: an Access line without the name token, or
\* an F-TICKS line.
CarriesNoUsername(line) == line.kind = "fticks" \/ line.user = None

\* C14: after enrich_log_data no record of the extended table has a null
\* user, and a record whose line carried no username has user "unknown"; in
\* extract_summary_tables_from_stream an Access record whose line carried no
\* username token has Username null, never a sentinel string.
C14_UsernameNormalisation ==
    /\ Enriched =>
          LET sel == SelectSeq(input, RitikRecognised)
          IN  \A i \in 1..Len(df.rows) :
                  /\ df.rows[i]["user"] # None
                  /\ CarriesNoUsername(sel[i]) =>
                        df.rows[i]["user"] = S_unknown
    /\ prog = "log_generator" =>
          LET sel == SelectSeq(SubSeq(input, 1, idx - 1), LgAccessMatch)
          IN  /\ \A i \in 1..Len(access_logs) :
                    sel[i].user = None => access_logs[i].Username = None
              /\ pc = "returned" =>
                    \A i \in 1..Len(df_access.rows) :
                        sel[i].user = None =>
                            df_access.rows[i]["Username"] = None

\* C15: parse_eduroam_log run twice on the same log text yields identical
\* tables: from the table the parsing has built, every run of enrich_log_data
\* produces the same value in every column of every record, latitude and
\* longitude included.
C15_SameTableOnEveryRun ==
    [][(prog = "ritik" /\ pc = "enrich" /\ pc' = "returned") =>
          \A state \in RandomStates : df' = enrich_frame(df, state)
      ]_vars

\* The decoded line matches fticks_pattern of log_generator.py.
LgFticksMatch(line) == fticks_pattern(Decode(line))

\* The line matches one of the two grammars of log_generator.py.
LgRecognised(line) == LgAccessMatch(line) \/ LgFticksMatch(line)

\* The Access dicts of the lines of inp that match, in the order of the lines.
AccessOf(inp) ==
    LET sel == SelectSeq(inp, LgAccessMatch)
    IN  [i \in 1..Len(sel) |-> access_dict(Decode(sel[i]))]

\* The F-TICKS dicts of the lines of inp that match, in the order of the lines.
FticksOf(inp) ==
    LET sel == SelectSeq(inp, LgFticksMatch)
    IN  [i \in 1..Len(sel) |-> fticks_dict(Decode(sel[i]))]

\* The rows of a returned table, from the dicts it is built from.
RowsOf(dicts, cols) ==
    [i \in 1..Len(dicts) |->
        [c \in cols |-> IF c = "Timestamp"
                        THEN to_datetime_coerce(dicts[i][c])
                        ELSE dicts[i][c]]]

\* C16: unrecognised lines have no effect on extract_summary_tables_from_stream:
\* what it has built is what it builds from the input with every line that
\* matches neither grammar deleted, so inserting or deleting such lines leaves
\* both tables unchanged, and the rows of each table are in the relative order
\* of the lines that produced them.
C16_UnrecognisedLinesNoEffect ==
    prog = "log_generator" =>
        LET kept == SelectSeq(SubSeq(input, 1, idx - 1), LgRecognised)
        IN  /\ access_logs = AccessOf(kept)
            /\ fticks_logs = FticksOf(kept)
            /\ pc = "returned" =>
                  /\ df_access.rows = RowsOf(AccessOf(kept), df_access.columns)
                  /\ df_fticks.rows = RowsOf(FticksOf(kept), df_fticks.columns)
            /\ pc = "raised" => AccessOf(kept) = <<>> \/ FticksOf(kept) = <<>>

\* Witness of C16: the function has returned for an input whose first line
\* matches neither grammar and whose second line gave a row to each table.
C16_Witness ==
    /\ prog = "log_generator"
    /\ pc = "returned"
    /\ Len(input) = 2
    /\ ~LgRecognised(input[1])
    /\ Len(df_access.rows) = 1
    /\ Len(df_fticks.rows) = 1

\* C17: in extract_summary_tables_from_stream both checks are made on every
\* decoded line, neither depending on the other: the line appends one row to
\* the Access list iff it matches the Access pattern and one row to the
\* F-TICKS list iff it matches the F-TICKS pattern, so a line gives at most
\* one row to each and a line matching both gives a row to both.
C17_BothChecksOnEveryLine ==
    [][LgAtLine =>
          LET line == Decode(input[idx])
          IN  /\ access_logs' = IF access_pattern(line)
                                THEN Append(access_logs, access_dict(line))
                                ELSE access_logs
              /\ fticks_logs' = IF fticks_pattern(line)
                                THEN Append(fticks_logs, fticks_dict(line))
                                ELSE fticks_logs
              /\ Len(access_logs') <= Len(access_logs) + 1
              /\ Len(fticks_logs') <= Len(fticks_logs) + 1
      ]_vars

\* Witness of C17: the first line matched both patterns and gave one row to
\* each list.
C17_Witness ==
    /\ prog = "log_generator"
    /\ idx = 2
    /\ access_pattern(Decode(input[1]))
    /\ fticks_pattern(Decode(input[1]))
    /\ Len(access_logs) = 1
    /\ Len(fticks_logs) = 1

\* main has just stored the table of this run and its analysis.
Analysed ==
    /\ prog = "ritik"
    /\ pc = "content"
    /\ uploaded
    /\ df.rows # <<>>
    /\ error = NoError

\* The rows of the user, in the order of the table.
RowsOfUser(rows, user) == SelectSeq(rows, LAMBDA r : r["user"] = user)

\* The two lists hold the same elements the same number of times.
SameElements(a, b) ==
    /\ Len(a) = Len(b)
    /\ \A i \in 1..Len(a) :
          Cardinality({j \in 1..Len(a) : a[j] = a[i]}) =
          Cardinality({j \in 1..Len(b) : b[j] = a[i]})

\* No element occurs twice in the list.
NoDuplicates(s) == \A i, j \in 1..Len(s) : s[i] = s[j] => i = j

\* C18: in analyze_movements every user other than "unknown" has a summary
\* consistent with the user's records: movements holds exactly those records
\* in ascending timestamp order, institutions_visited holds each destination
\* institution of those records exactly once, successful_connections is the
\* number of those records with status Accept and never exceeds
\* total_connections, and is_roaming is true iff one of those records is
\* roaming-flagged, iff roaming_sessions > 0.
C18_UserSummaryConsistent ==
    Analysed =>
        LET um == session_state["analysis"].user_movements
        IN  /\ DOMAIN um =
                  {df.rows[i]["user"] : i \in 1..Len(df.rows)} \ {S_unknown}
            /\ \A user \in DOMAIN um :
                  LET own == RowsOfUser(df.rows, user)
                      m   == um[user]
                  IN  /\ SameElements(m.movements, own)
                      /\ \A i, j \in 1..Len(m.movements) :
                            i < j => ~DatetimeLess(m.movements[j]["timestamp"],
                                                   m.movements[i]["timestamp"])
                      /\ NoDuplicates(m.institutions_visited)
                      /\ {m.institutions_visited[i] :
                              i \in 1..Len(m.institutions_visited)} =
                         {own[i]["to_inst"] : i \in 1..Len(own)}
                      /\ m.total_connections = Len(own)
                      /\ m.successful_connections =
                            Cardinality({i \in 1..Len(own) :
                                            own[i]["status"] = <<"Accept">>})
                      /\ m.successful_connections <= m.total_connections
                      /\ m.is_roaming =
                            (\E i \in 1..Len(own) : own[i]["is_roaming"])
                      /\ m.is_roaming = (m.roaming_sessions > 0)

\* Witness of C18: the table holds two records of one user, the later one
\* first, and the summary of the user lists the earlier one first.
C18_Witness ==
    /\ Analysed
    /\ Len(df.rows) = 2
    /\ df.rows[1]["user"] = df.rows[2]["user"]
    /\ df.rows[1]["user"] # S_unknown
    /\ DatetimeLess(df.rows[2]["timestamp"], df.rows[1]["timestamp"])
    /\ session_state["analysis"].user_movements[df.rows[1]["user"]].movements
          = <<df.rows[2], df.rows[1]>>

\* The sum of f over the keys.
RECURSIVE SumOver(_, _)
SumOver(f, keys) ==
    IF keys = {} THEN 0
    ELSE LET k == CHOOSE x \in keys : TRUE
         IN  f[k] + SumOver(f, keys \ {k})

\* C19: institution_stats has one entry per distinct destination institution
\* of the table, holding the number of distinct users, of Accept records and
\* of roaming-flagged records with that destination; no record is left out,
\* so the per-institution successful_connections sum to the global
\* successful_connections and the roaming counts to the global
\* roaming_sessions.
C19_InstitutionStatsComplete ==
    Analysed =>
        LET analysis == session_state["analysis"]
            stats    == analysis.institution_stats
            With(inst) == {i \in 1..Len(df.rows) : df.rows[i]["to_inst"] = inst}
        IN  /\ DOMAIN stats = {df.rows[i]["to_inst"] : i \in 1..Len(df.rows)}
            /\ \A inst \in DOMAIN stats :
                  /\ stats[inst].unique_users =
                        Cardinality({df.rows[i]["user"] : i \in With(inst)})
                  /\ stats[inst].successful_connections =
                        Cardinality({i \in With(inst) :
                                        df.rows[i]["status"] = <<"Accept">>})
                  /\ stats[inst].roaming_users =
                        Cardinality({i \in With(inst) : df.rows[i]["is_roaming"]})
            /\ SumOver([inst \in DOMAIN stats |->
                           stats[inst].successful_connections], DOMAIN stats)
                  = analysis.successful_connections
            /\ SumOver([inst \in DOMAIN stats |-> stats[inst].roaming_users],
                       DOMAIN stats)
                  = analysis.roaming_sessions

\* Witness of C19: a table of two roaming records of one user with the same
\* destination, one of them accepted.
C19_Witness ==
    /\ Analysed
    /\ Len(df.rows) = 2
    /\ df.rows[1]["to_inst"] = df.rows[2]["to_inst"]
    /\ df.rows[1]["user"] = df.rows[2]["user"]
    /\ session_state["analysis"].institution_stats[df.rows[1]["to_inst"]]
          = [unique_users |-> 1, successful_connections |-> 1,
             roaming_users |-> 2]

\* C20: the enriched table is immutable once produced: apart from main
\* storing the table of a newly parsed file, no step of main (analysis,
\* filtering, display) adds a column to, or changes a row of, the table
\* stored in the session, the path without sidebar filters included.
C20_StoredTableImmutable ==
    [][("df" \in DOMAIN session_state /\ pc # "returned") =>
          session_state'["df"] = session_state["df"]
      ]_vars


\* C21: in the extended variant an input from which no record is extracted
\* is informational, not a failure: parse_eduroam_log reports "no valid
\* entries" and returns an empty table without calling enrichment and
\* without raising, and main then neither stores the empty table nor runs
\* analyze_movements on it (the session state is left as it was).
NoRecordExtracted ==
    prog = "ritik" /\ uploaded /\ idx > Len(input) /\ records = <<>>

C21_NoRecordIsInformational ==
    [][NoRecordExtracted =>
          /\ pc \notin {"enrich", "raised"}
          /\ pc = "parse" =>
                /\ pc' = "returned"
                /\ st_error' = NoValidEntries
                /\ df' = EmptyFrame
                /\ error' = NoError
          /\ pc = "returned" =>
                /\ st_error = NoValidEntries
                /\ df = EmptyFrame
                /\ session_state' = session_state
                /\ error' = NoError]_vars

\* Witness of C21: a first run on a file without any recognised line has
\* reported the condition and reached the main content with nothing stored.
C21_Witness ==
    /\ NoRecordExtracted
    /\ Len(input) > 0
    /\ pc = "content"
    /\ st_error = NoValidEntries
    /\ df = EmptyFrame
    /\ error = NoError
    /\ session_state = EmptySessionState


\* C22: across any sequence of dashboard runs of main, the table displayed is
\* the one parsed from the currently uploaded file: whenever a run has
\* displayed a table, a file is uploaded in that run, it yielded records, and
\* the table and analysis shown are those of that file.  In particular a run
\* with a file that yields no record, or with no file, displays no table of
\* an earlier file.
Displayed == prog = "ritik" /\ pc = "done" /\ "df" \in DOMAIN session_state

C22_DisplayedTableIsCurrent ==
    Displayed =>
        /\ uploaded
        /\ df.rows # <<>>
        /\ session_state["df"] = df
        /\ session_state["analysis"] = analyze_movements(df)
        /\ df_filtered =
              add_display_columns(apply_filters(df, default_filters(df)))

\* C23: the two parsers accept the same lines and differ only in null
\* handling: for every input line, extract_summary_tables_from_stream yields
\* an Access (resp. F-TICKS) record iff the patterns of parse_eduroam_log
\* yield an access (resp. fticks) record, and the extracted values agree,
\* except that an absent user name is null in the former and "unknown" in
\* the latter.
EventOf(status) ==
    IF status = <<"Accept">> THEN <<"Access-Accept">> ELSE <<"Access-Reject">>

AccessValuesAgree(a, r) ==
    /\ a["Timestamp"] = r.timestamp
    /\ a["Event"] = EventOf(r.status)
    /\ IF a["Username"] = None THEN fillna(r.user, S_unknown) = S_unknown
       ELSE r.user = a["Username"]
    /\ a["StationID"] = r.stationid
    /\ a["Source"] = r.from_inst
    /\ a["Destination"] = r.to_inst
    /\ a["ServerIP"] = r.ip
    /\ a["CUI"] = r.cui

FticksValuesAgree(f, r) ==
    /\ f["Timestamp"] = r.timestamp
    /\ f["VISCOUNTRY"] = r.viscountry
    /\ f["VISINST"] = r.visinst
    /\ f["CSI"] = r.csi
    /\ f["RESULT"] = r.result

ParsersAgreeOn(line) ==
    LET text == Decode(line)
        ritikAccess == text.kind # "blank" /\ Analyzer_access_pattern(text)
        ritikFticks == text.kind # "blank" /\ Analyzer_fticks_pattern(text)
    IN  /\ access_pattern(text) <=> ritikAccess
        /\ fticks_pattern(text) <=> ritikFticks
        /\ (access_pattern(text) /\ ritikAccess) =>
              AccessValuesAgree(access_dict(text), Analyzer_access_record(text))
        /\ (fticks_pattern(text) /\ ritikFticks) =>
              FticksValuesAgree(fticks_dict(text), Analyzer_fticks_record(text))

C23_ParsersAcceptSameLines ==
    (LgAtLine \/ RitikAtLine) => ParsersAgreeOn(input[idx])

\* C24: in app.py, with the default date range (from the minimum to the
\* maximum Timestamp of the Access table) and no other filter changed, the
\* filtered Access table contains every Access record whose Timestamp is not
\* null, the records of the last day at any time of day included.
C24_DefaultRangeKeepsEveryRecord ==
    (prog = "log_generator" /\ pc = "filtered") =>
        LET dated == SelectSeq(df_access.rows, LAMBDA r : r["Timestamp"] # NaT)
            shown == access_df_filtered.rows
        IN  /\ Len(shown) = Len(dated)
            /\ \A i \in 1..Len(dated) : \E j \in 1..Len(shown) :
                  shown[j] = dated[i]

\* C25: in the result of analyze_movements for any non-empty enriched table,
\* tables with F-TICKS records included, successful_connections +
\* failed_connections = total_connections: every record counted as a
\* connection is counted as exactly one of successful or failed.
C25_ConnectionsPartitioned ==
    Analysed =>
        LET analysis == session_state["analysis"]
        IN  analysis.successful_connections + analysis.failed_connections
                = analysis.total_connections

\* C26: in the result of analyze_movements, indian_users + foreign_users =
\* total_users: every distinct user is counted in exactly one of the two
\* origin classes, also when the records of that user have different source
\* and destination institutions.
C26_UsersPartitioned ==
    Analysed =>
        LET analysis == session_state["analysis"]
        IN  analysis.indian_users + analysis.foreign_users
                = analysis.total_users
=============================================================================
